---- MODULE Spec2Model ----
(***************************************************************************)
(* Model of the React form component (src/react-form-app/src/App.js):      *)
(* controlled form state, preview object URL lifecycle, validation,        *)
(* submission with an asynchronous FileReader encode, the submission log   *)
(* and its localStorage snapshot.                                          *)
(* The express server (src/unnamed/part_000) with its POST /submit handler  *)
(* and the submissions.json file is modelled next to it; the two programs  *)
(* share no state.                                                         *)
(*                                                                         *)
(* JavaScript strings are sequences of one-character strings; null is the  *)
(* value NULL.  Every handler runs to completion, followed by the render   *)
(* and the passive effects it schedules, before the next event.            *)
(***************************************************************************)
EXTENDS Integers, Sequences, FiniteSets, TLC

\* ---------------------------------------------------------------- bounds
MaxLog == 2        \* SpecLog: submits are offered while the log is shorter
MaxEncoded == 1    \* Spec: submits are offered while the log is shorter
MaxPending == 1    \* FileReaders that may be loading at the same time
MaxTime == 1       \* the clock runs over 0..MaxTime milliseconds
MaxUrls == 2       \* object URLs that may be live at the same time
MaxHobbies == 2    \* length of the hobbies array
MaxEmailLen == 5   \* SpecEmail: length of the typed email strings
MaxRequests == 3   \* SpecServer: POST /submit requests received
MaxSeconds == 1    \* SpecServer: the server's clock runs over 0..MaxSeconds

\* ---------------------------------------------------------------- values
NULL == <<"null">>

\* !v for a string or null
Falsy(v) == v = NULL \/ v = <<>>

S_Ana == <<"A", "n", "a">>
S_blank == <<" ">>
S_bad == <<"b", "a", "d">>
S_good == <<"a", "@", "x", ".", "c">>
S_7 == <<"7">>
S_neg == <<"-", "1">>
S_male == <<"m", "a", "l", "e">>
S_female == <<"f", "e", "m", "a", "l", "e">>
S_other == <<"o", "t", "h", "e", "r">>
S_robot == <<"r", "o", "b", "o", "t">>
S_hi == <<"h", "i">>
S_music == <<"m", "u", "s", "i", "c">>
S_coding == <<"c", "o", "d", "i", "n", "g">>

File1 == <<"file", 1>>
File2 == <<"file", 2>>
Files == {File1, File2}

\* useState initial value of form, and the literal of the two resets
DefaultForm ==
  [name |-> <<>>, email |-> <<>>, age |-> <<>>, gender |-> <<>>, bio |-> <<>>,
   hobbies |-> <<>>, agree |-> FALSE, profile |-> NULL]

VARIABLES form, preview, errors, submissions, storage, readers,
          objectUrls, effectUrl, now, last

vars == <<form, preview, errors, submissions, storage, readers,
          objectUrls, effectUrl, now, last>>

\* the express server: the file submissions.json (<<>> when it does not
\* exist, <<text>> when it does), the requests whose body is parsed and
\* whose handler has not run yet, the responses sent, the server's clock
VARIABLES disk, inbox, served, seconds

serverVars == <<disk, inbox, served, seconds>>

\* ------------------------------------------------------- string helpers
IsSpace(c) == c = " "

RECURSIVE TrimStart(_)
TrimStart(s) ==
  IF s # <<>> /\ IsSpace(Head(s)) THEN TrimStart(Tail(s)) ELSE s

RECURSIVE TrimEnd(_)
TrimEnd(s) ==
  IF s # <<>> /\ IsSpace(s[Len(s)]) THEN TrimEnd(SubSeq(s, 1, Len(s) - 1)) ELSE s

\* String.prototype.trim
Trim(s) == TrimEnd(TrimStart(s))

\* the character class [^@\s]
NotAtOrSpace(c) == c # "@" /\ ~IsSpace(c)

\* [^@\s]+ matches the whole of s[a..b]
Run(s, a, b) == a <= b /\ \A k \in a..b : NotAtOrSpace(s[k])

\* the pattern without its dot: /^[^@\s]+@[^@\s]+$/.test(s)
EmailRegexTestNoDot(s) ==
  \E i \in 1..Len(s) :
    /\ s[i] = "@"
    /\ Run(s, 1, i - 1)
    /\ Run(s, i + 1, Len(s))

\* /^[^@\s]+@[^@\s]+\.[^@\s]+$/.test(s)
EmailRegexTest(s) ==
  \E i \in 1..Len(s) : \E j \in 1..Len(s) :
    /\ i < j
    /\ s[i] = "@"
    /\ s[j] = "."
    /\ Run(s, 1, i - 1)
    /\ Run(s, i + 1, j - 1)
    /\ Run(s, j + 1, Len(s))

Digits == {"0", "1", "2", "3", "4", "5", "6", "7", "8", "9"}
DigitValue(c) ==
  CASE c = "0" -> 0 [] c = "1" -> 1 [] c = "2" -> 2 [] c = "3" -> 3
    [] c = "4" -> 4 [] c = "5" -> 5 [] c = "6" -> 6 [] c = "7" -> 7
    [] c = "8" -> 8 [] c = "9" -> 9

RECURSIVE DecimalValue(_)
DecimalValue(s) ==
  IF s = <<>> THEN 0
  ELSE 10 * DecimalValue(SubSeq(s, 1, Len(s) - 1)) + DigitValue(s[Len(s)])

AllDigits(s) == s # <<>> /\ \A k \in 1..Len(s) : s[k] \in Digits

\* Number(s) on strings over digits, "-", space and letters: [nan, value]
Number(s) ==
  LET t == Trim(s) IN
    IF t = <<>> THEN [nan |-> FALSE, value |-> 0]
    ELSE IF AllDigits(t) THEN [nan |-> FALSE, value |-> DecimalValue(t)]
    ELSE IF Head(t) = "-" /\ AllDigits(Tail(t))
      THEN [nan |-> FALSE, value |-> 0 - DecimalValue(Tail(t))]
    ELSE [nan |-> TRUE, value |-> 0]

\* ------------------------------------------------------------ validate
NameFails(f) == Trim(f.name) = <<>>
EmailMissing(f) == Trim(f.email) = <<>>
EmailFails(f) == EmailMissing(f) \/ ~EmailRegexTest(f.email)
AgeFails(f) ==
  ~Falsy(f.age) /\ (Number(f.age).nan \/ Number(f.age).value <= 0)
GenderFails(f) == Falsy(f.gender)
AgreeFails(f) == ~f.agree

\* the checks as an else-if chain: only the first failing field is reported
ErrorKeysFirstOnly(f) ==
  IF NameFails(f) THEN {"name"}
  ELSE IF EmailFails(f) THEN {"email"}
  ELSE IF AgeFails(f) THEN {"age"}
  ELSE IF GenderFails(f) THEN {"gender"}
  ELSE IF AgreeFails(f) THEN {"agree"}
  ELSE {}

ErrorKeys(f) ==
  {k \in {"name", "email", "age", "gender", "agree"} :
     \/ k = "name" /\ NameFails(f)
     \/ k = "email" /\ EmailFails(f)
     \/ k = "age" /\ AgeFails(f)
     \/ k = "gender" /\ GenderFails(f)
     \/ k = "agree" /\ AgreeFails(f)}

ErrorMessage(f, k) ==
  CASE k = "name" -> "Name is required."
    [] k = "email" ->
         IF EmailMissing(f) THEN "Email is required." ELSE "Enter a valid email."
    [] k = "age" -> "Enter a valid age."
    [] k = "gender" -> "Please select your gender."
    [] k = "agree" -> "You must agree to the terms."

\* the object e returned by validate(): failing field -> message
validate(f) == [k \in ErrorKeys(f) |-> ErrorMessage(f, k)]

NoErrors == [k \in {} |-> ""]

\* ---------------------------------------------------------------- JSON
\* A JSON text is a sequence of tokens: punctuation, member keys, string
\* literals, null, and (for hobbies) an array literal of string literals.
Punct(c) == <<"punct", c>>

\* property order of the toSave object literal
RecordKeys ==
  <<"name", "email", "age", "gender", "bio", "hobbies", "profileUrl", "timestamp">>

JSONvalue(v, isArray) ==
  IF isArray THEN <<"array", [i \in 1..Len(v) |-> <<"string", v[i]>>]>>
  ELSE IF v = NULL THEN <<"null">>
  ELSE <<"string", v>>

JSONobject(s) ==
  [i \in 1..(2 * Len(RecordKeys) + 2) |->
     IF i = 1 THEN Punct("{")
     ELSE IF i = 2 * Len(RecordKeys) + 2 THEN Punct("}")
     ELSE IF i % 2 = 0 THEN <<"key", RecordKeys[i \div 2]>>
     ELSE JSONvalue(s[RecordKeys[(i - 1) \div 2]], RecordKeys[(i - 1) \div 2] = "hobbies")]

RECURSIVE JSONelements(_)
JSONelements(a) ==
  IF a = <<>> THEN <<>>
  ELSE JSONobject(Head(a)) \o
       (IF Tail(a) = <<>> THEN <<>> ELSE <<Punct(",")>> \o JSONelements(Tail(a)))

\* a stringify that writes the elements last to first
JSONstringifyReversed(a) ==
  <<Punct("[")>> \o JSONelements([i \in 1..Len(a) |-> a[Len(a) + 1 - i]]) \o <<Punct("]")>>

\* JSON.stringify(next) for an array of submission records
JSONstringify(a) == <<Punct("[")>> \o JSONelements(a) \o <<Punct("]")>>

ParseValue(tok) ==
  IF tok = <<"null">> THEN NULL
  ELSE IF tok[1] = "array" THEN [i \in 1..Len(tok[2]) |-> tok[2][i][2]]
  ELSE tok[2]

\* index of the "}" closing the object that opens at text[i]
ObjectEnd(text, i) ==
  CHOOSE j \in i..Len(text) :
    /\ text[j] = Punct("}")
    /\ \A k \in i..(j - 1) : text[k] # Punct("}")

\* the object whose members lie in text[i+1 .. j-1]
ParseObject(text, i, j) ==
  LET keyAt == {k \in (i + 1)..(j - 1) : text[k][1] = "key"}
  IN [name \in {text[k][2] : k \in keyAt} |->
        ParseValue(text[(CHOOSE k \in keyAt : text[k][2] = name) + 1])]

RECURSIVE ParseElements(_, _)
ParseElements(text, i) ==
  IF text[i] = Punct("]") THEN <<>>
  ELSE IF text[i] = Punct(",") THEN ParseElements(text, i + 1)
  ELSE <<ParseObject(text, i, ObjectEnd(text, i))>> \o
       ParseElements(text, ObjectEnd(text, i) + 1)

\* JSON.parse(saved) for a text produced by JSONstringify
JSONparse(text) == ParseElements(text, 2)

\* ------------------------------------------------------- localStorage
\* storage is the entry "react_form_submissions": <<>> when the key is
\* absent, <<text>> when it holds text.
getItem(st) == IF st = <<>> THEN NULL ELSE st[1]
setItem(text) == <<text>>

\* the load effect: if (saved) setSubmissions(JSON.parse(saved))
LoadSubmissions(st) ==
  IF Falsy(getItem(st)) THEN <<>> ELSE JSONparse(getItem(st))

\* ------------------------------------------------------------- clock
\* new Date().toISOString(): the ISO-8601 text of the millisecond count
toISOString(t) == <<"iso", t>>
Timestamps == {toISOString(t) : t \in 0..MaxTime}

\* reader.result of readAsDataURL(file)
readAsDataURL(file) == <<"data", file>>

\* -------------------------------------------------------------- inputs
\* change events of the text inputs, radios and textarea: <<name, value>>
FormEvents ==
  {<<"name", S_Ana>>,
   <<"email", S_good>>,
   <<"gender", S_female>>}

LogEvents ==
  {<<"name", S_Ana>>,
   <<"email", S_good>>, <<"email", S_bad>>,
   <<"gender", S_female>>}

EditorEvents ==
  {<<"name", S_Ana>>, <<"name", S_blank>>,
   <<"email", S_good>>, <<"email", S_bad>>,
   <<"age", S_7>>, <<"age", S_neg>>,
   <<"gender", S_female>>,
   <<"bio", S_hi>>}

\* every string of at most MaxEmailLen characters typed into the email
\* input, over a letter, "@", "." and the space
EmailAlphabet == {"a", "@", ".", " "}
EmailStrings == UNION {[1..n -> EmailAlphabet] : n \in 0..MaxEmailLen}

\* values of the three gender radios
GenderValues == {S_male, S_female, S_other}

\* forms the change handler can have built: each validated field empty,
\* failing its rule or passing it; gender also a value that is no radio's
ValidatorForms ==
  {[DefaultForm EXCEPT !.name = n, !.email = e, !.age = a, !.gender = g, !.agree = c] :
     n \in {<<>>, S_blank, S_Ana}, e \in {<<>>, S_bad, S_good},
     a \in {<<>>, S_7, S_neg}, g \in {<<>>, S_robot} \cup GenderValues,
     c \in BOOLEAN}

\* values of the hobbies checkboxes
HobbyValues == {S_music, S_coding}

\* --------------------------------------------------------------- state
Event(handler, case, threw) == [handler |-> handler, case |-> case, threw |-> threw]

\* the server has started; submissions.json does not exist
InitServer ==
  /\ disk = <<>>
  /\ inbox = <<>>
  /\ served = 0
  /\ seconds = 0

Init ==
  /\ form = DefaultForm
  /\ preview = NULL
  /\ errors = NoErrors
  /\ storage = <<>>
  /\ submissions = LoadSubmissions(storage)
  /\ readers = <<>>
  /\ objectUrls = {}
  /\ effectUrl = NULL
  /\ now = 0
  /\ last = Event("mount", "", FALSE)
  /\ InitServer

\* ------------------------------------------------------ preview effect
\* objectUrls is the browser's blob URL store: the URLs created and not yet
\* revoked, each with the file it was created for.
UrlsHeld == {u.url : u \in objectUrls} \cup {preview, effectUrl}

\* URL.createObjectURL(file) returns a URL unlike every URL that is live or
\* that the component still holds
createObjectURL == <<"blob", CHOOSE n \in 1..(MaxUrls + 2) : <<"blob", n>> \notin UrlsHeld>>

\* URL.revokeObjectURL(url)
revokeObjectURL(url) == {u \in objectUrls : u.url # url}

\* the effect without its cleanup function
PreviewEffectNoCleanup(p, pv) ==
  IF p = form.profile
    THEN [preview |-> pv, effectUrl |-> effectUrl, objectUrls |-> objectUrls]
  ELSE IF Falsy(p)
    THEN [preview |-> NULL, effectUrl |-> NULL, objectUrls |-> objectUrls]
  ELSE [preview |-> createObjectURL,
        effectUrl |-> createObjectURL,
        objectUrls |-> objectUrls \cup {[url |-> createObjectURL, blob |-> p]}]

\* The effect with dependency [form.profile], run after a render in which
\* the profile became p; pv is the preview the handler itself has set.
\* Its cleanup (revoking the URL of the previous run) runs first.
PreviewEffect(p, pv) ==
  IF p = form.profile
    THEN [preview |-> pv, effectUrl |-> effectUrl, objectUrls |-> objectUrls]
  ELSE IF Falsy(p)
    THEN [preview |-> NULL, effectUrl |-> NULL,
          objectUrls |-> revokeObjectURL(effectUrl)]
  ELSE [preview |-> createObjectURL,
        effectUrl |-> createObjectURL,
        objectUrls |-> revokeObjectURL(effectUrl) \cup
                         {[url |-> createObjectURL, blob |-> p]}]

\* commit a render with the next form f and the handler's preview pv
Render(f, pv) ==
  /\ form' = f
  /\ preview' = PreviewEffect(f.profile, pv).preview
  /\ effectUrl' = PreviewEffect(f.profile, pv).effectUrl
  /\ objectUrls' = PreviewEffect(f.profile, pv).objectUrls

\* ------------------------------------------------------- field editor
\* handleChange, hobbies checkbox branch
NextHobbies(checked, value) ==
  IF checked THEN Append(form.hobbies, value)
  ELSE SelectSeq(form.hobbies, LAMBDA h : h # value)

ChangeHobby(value, checked) ==
  /\ Render([form EXCEPT !.hobbies = NextHobbies(checked, value)], preview)
  /\ UNCHANGED serverVars
  /\ last' = Event("handleChange", "hobbies", FALSE)
  /\ UNCHANGED <<errors, submissions, storage, readers, now>>

\* handleChange, other checkbox (agree)
ChangeAgree(checked) ==
  /\ Render([form EXCEPT !.agree = checked], preview)
  /\ UNCHANGED serverVars
  /\ last' = Event("handleChange", "checkbox", FALSE)
  /\ UNCHANGED <<errors, submissions, storage, readers, now>>

\* handleChange, every other input: [name]: value
ChangeText(name, value) ==
  /\ Render([form EXCEPT ![name] = value], preview)
  /\ UNCHANGED serverVars
  /\ last' = Event("handleChange", "text", FALSE)
  /\ UNCHANGED <<errors, submissions, storage, readers, now>>

\* handleFile: files[0] || null
HandleFile(file) ==
  /\ Render([form EXCEPT !.profile = file], preview)
  /\ UNCHANGED serverVars
  /\ last' = Event("handleFile", "", FALSE)
  /\ UNCHANGED <<errors, submissions, storage, readers, now>>

\* the Reset button's onClick
Reset ==
  /\ Render(DefaultForm, NULL)
  /\ errors' = NoErrors
  /\ UNCHANGED serverVars
  /\ last' = Event("reset", "", FALSE)
  /\ UNCHANGED <<submissions, storage, readers, now>>

\* ------------------------------------------------ submission coordinator
\* { ...form, profileUrl: url }
Spread(f, url) ==
  [k \in DOMAIN f \cup {"profileUrl"} |-> IF k = "profileUrl" THEN url ELSE f[k]]

\* the toSave object literal of saveSubmission
toSave(submitted) ==
  [name |-> submitted.name,
   email |-> submitted.email,
   age |-> submitted.age,
   gender |-> submitted.gender,
   bio |-> submitted.bio,
   hobbies |-> submitted.hobbies,
   profileUrl |-> submitted.profileUrl,
   timestamp |-> toISOString(now)]

\* next built as [...submissions, toSave]
NextSubmissionsAppended(submitted, subs) == subs \o <<toSave(submitted)>>

\* const next = [toSave, ...submissions], with the submissions of the
\* render whose closure is running
NextSubmissions(submitted, subs) == <<toSave(submitted)>> \o subs

\* saveSubmission that resets the form before it writes to localStorage
saveSubmissionResetFirst(submitted, subs, errs, ok) ==
  /\ submissions' = NextSubmissions(submitted, subs)
  /\ storage' = IF ok THEN setItem(JSONstringify(NextSubmissions(submitted, subs)))
                 ELSE storage
  /\ Render(DefaultForm, NULL)
  /\ errors' = NoErrors

\* saveSubmission that persists the record and leaves the form as it is
saveSubmissionNoReset(submitted, subs, errs, ok) ==
  /\ submissions' = NextSubmissions(submitted, subs)
  /\ storage' = IF ok THEN setItem(JSONstringify(NextSubmissions(submitted, subs)))
                 ELSE storage
  /\ Render(form, preview)
  /\ errors' = errs

\* saveSubmission(submitted) run from a closure that captured subs; errs is
\* the errors state the handler has set before the call.  ok = FALSE is
\* localStorage.setItem throwing: the statements after it do not run.
saveSubmission(submitted, subs, errs, ok) ==
  /\ submissions' = NextSubmissions(submitted, subs)
  /\ IF ok
       THEN /\ storage' = setItem(JSONstringify(NextSubmissions(submitted, subs)))
            /\ Render(DefaultForm, NULL)
            /\ errors' = NoErrors
       ELSE /\ storage' = storage
            /\ Render(form, preview)
            /\ errors' = errs

HasErrors(v) == DOMAIN v # {}

\* handleSubmit whose validation branch lacks the return
SubmitInvalidNoReturn ==
  /\ HasErrors(validate(form))
  /\ errors' = validate(form)
  /\ submissions' = NextSubmissions(Spread(form, NULL), submissions)
  /\ storage' = setItem(JSONstringify(NextSubmissions(Spread(form, NULL), submissions)))
  /\ UNCHANGED serverVars
  /\ last' = Event("handleSubmit", "invalid", FALSE)
  /\ UNCHANGED <<form, preview, readers, objectUrls, effectUrl, now>>

\* handleSubmit, validation fails: setErrors(v); return
SubmitInvalid ==
  /\ HasErrors(validate(form))
  /\ errors' = validate(form)
  /\ UNCHANGED serverVars
  /\ last' = Event("handleSubmit", "invalid", FALSE)
  /\ UNCHANGED <<form, preview, submissions, storage, readers,
                 objectUrls, effectUrl, now>>

\* handleSubmit, valid form with a profile: start the FileReader, whose
\* onload closure holds this render's form and submissions
SubmitRead ==
  /\ ~HasErrors(validate(form))
  /\ ~Falsy(form.profile)
  /\ errors' = validate(form)
  /\ readers' = Append(readers, [file |-> form.profile, form |-> form,
                                 submissions |-> submissions])
  /\ UNCHANGED serverVars
  /\ last' = Event("handleSubmit", "read", FALSE)
  /\ UNCHANGED <<form, preview, submissions, storage,
                 objectUrls, effectUrl, now>>

\* handleSubmit, valid form without a profile
SubmitSave(ok) ==
  /\ ~HasErrors(validate(form))
  /\ Falsy(form.profile)
  /\ saveSubmission(Spread(form, NULL), submissions, validate(form), ok)
  /\ UNCHANGED serverVars
  /\ last' = Event("handleSubmit", "save", ~ok)
  /\ UNCHANGED <<readers, now>>

RemoveAt(q, i) == SubSeq(q, 1, i - 1) \o SubSeq(q, i + 1, Len(q))

\* reader.onload that reads the form of the latest render
ReaderOnloadLatestForm(i, ok) ==
  /\ saveSubmission(Spread(form, readAsDataURL(readers[i].file)),
                    readers[i].submissions, errors, ok)
  /\ readers' = RemoveAt(readers, i)
  /\ UNCHANGED serverVars
  /\ last' = Event("reader.onload",
                   IF readers[i].form = form THEN "unedited" ELSE "edited", ~ok)
  /\ UNCHANGED now

\* reader.onload of the i-th pending FileReader
ReaderOnload(i, ok) ==
  /\ saveSubmission(Spread(readers[i].form, readAsDataURL(readers[i].file)),
                    readers[i].submissions, errors, ok)
  /\ readers' = RemoveAt(readers, i)
  /\ UNCHANGED serverVars
  /\ last' = Event("reader.onload",
                   IF readers[i].form = form THEN "unedited" ELSE "edited", ~ok)
  /\ UNCHANGED now

\* a reader.onerror handler that saves the submission without its image
ReaderErrorSavesNull(i) ==
  /\ saveSubmission(Spread(readers[i].form, NULL), readers[i].submissions, errors, TRUE)
  /\ readers' = RemoveAt(readers, i)
  /\ UNCHANGED serverVars
  /\ last' = Event("reader.onerror", "", FALSE)
  /\ UNCHANGED now

\* the read of the i-th pending FileReader fails: no onerror handler is set
ReaderError(i) ==
  /\ readers' = RemoveAt(readers, i)
  /\ UNCHANGED serverVars
  /\ last' = Event("reader.onerror", "", FALSE)
  /\ UNCHANGED <<form, preview, errors, submissions, storage,
                 objectUrls, effectUrl, now>>

\* ------------------------------------------------------ log viewer
AfterDelete(ts) == SelectSeq(submissions, LAMBDA s : s.timestamp # ts)

HasTimestamp(subs, ts) == \E i \in 1..Len(subs) : subs[i].timestamp = ts

\* handleDelete(ts); ok = FALSE is localStorage.setItem throwing
HandleDelete(ts, ok) ==
  /\ submissions' = AfterDelete(ts)
  /\ storage' = IF ok THEN setItem(JSONstringify(AfterDelete(ts))) ELSE storage
  /\ UNCHANGED serverVars
  /\ last' = Event("handleDelete",
                   IF HasTimestamp(submissions, ts) THEN "present" ELSE "absent", ~ok)
  /\ UNCHANGED <<form, preview, errors, readers,
                 objectUrls, effectUrl, now>>

\* ------------------------------------------------------- environment
\* a millisecond passes
Tick ==
  /\ now' = now + 1
  /\ UNCHANGED serverVars
  /\ last' = Event("tick", "", FALSE)
  /\ UNCHANGED <<form, preview, errors, submissions, storage, readers,
                 objectUrls, effectUrl>>

\* the page is loaded again: the component mounts with its initial state,
\* the load effect reads localStorage; pending readers and object URLs die
\* with the old document
Reload ==
  /\ form' = DefaultForm
  /\ preview' = NULL
  /\ errors' = NoErrors
  /\ submissions' = LoadSubmissions(storage)
  /\ readers' = <<>>
  /\ objectUrls' = {}
  /\ effectUrl' = NULL
  /\ UNCHANGED serverVars
  /\ last' = Event("mount", "reload", FALSE)
  /\ UNCHANGED <<storage, now>>

\* ------------------------------------------------------ express server
\* a body field the posted form did not send
UNDEFINED == <<"undefined">>

\* req.body after bodyParser.urlencoded: name, email, message
Bodies ==
  {[name |-> n, email |-> e, message |-> m] :
     n \in {S_Ana, UNDEFINED}, e \in {S_good}, m \in {S_hi, <<>>}}

\* new Date().toLocaleString(): the text of the clock's second
toLocaleString(t) == <<"locale", t>>

\* the newSubmission object literal
newSubmission(body) ==
  [name |-> body.name,
   email |-> body.email,
   message |-> body.message,
   submittedAt |-> toLocaleString(seconds)]

\* property order of newSubmission
SubmissionKeys == <<"name", "email", "message", "submittedAt">>

\* JSON.stringify leaves out the members whose value is undefined
MemberKeys(r) ==
  SelectSeq(SubmissionKeys, LAMBDA k : k \in DOMAIN r /\ r[k] # UNDEFINED)

\* the newline and indentation JSON.stringify(_, null, 2) writes
WS == <<"ws">>

RECURSIVE IndentedMembers(_, _)
IndentedMembers(r, keys) ==
  IF keys = <<>> THEN <<>>
  ELSE <<WS, <<"key", Head(keys)>>, <<"string", r[Head(keys)]>>>> \o
       (IF Tail(keys) = <<>> THEN <<>>
        ELSE <<Punct(",")>> \o IndentedMembers(r, Tail(keys)))

IndentedObject(r) ==
  IF MemberKeys(r) = <<>> THEN <<Punct("{"), Punct("}")>>
  ELSE <<Punct("{")>> \o IndentedMembers(r, MemberKeys(r)) \o <<WS, Punct("}")>>

RECURSIVE IndentedElements(_)
IndentedElements(a) ==
  IF a = <<>> THEN <<>>
  ELSE <<WS>> \o IndentedObject(Head(a)) \o
       (IF Tail(a) = <<>> THEN <<>> ELSE <<Punct(",")>> \o IndentedElements(Tail(a)))

\* JSON.stringify(submissions, null, 2)
JSONstringifyIndented(a) ==
  IF a = <<>> THEN <<Punct("["), Punct("]")>>
  ELSE <<Punct("[")>> \o IndentedElements(a) \o <<WS, Punct("]")>>

\* JSON.parse(fileData): whitespace between the tokens is skipped
JSONparseFile(text) == JSONparse(SelectSeq(text, LAMBDA t : t # WS))

existsSync(d) == d # <<>>
readFileSync(d) == d[1]
writeFileSync(text) == <<text>>

\* fileData.trim() === ""
TrimIsEmpty(text) == \A k \in 1..Len(text) : text[k] = WS

\* a handler that starts from the empty array without reading the file
ReadSubmissionsSkipped(d) == <<>>

\* the handler's submissions array after its read of the file
ReadSubmissions(d) ==
  IF existsSync(d) /\ ~TrimIsEmpty(readFileSync(d))
    THEN JSONparseFile(readFileSync(d))
  ELSE <<>>

\* submissions.json when the server starts: missing, empty or blank
StartFiles == {<<>>, <<<<>>>>, <<<<WS>>>>}

\* a POST /submit has arrived and its body is parsed
Request(body) ==
  /\ inbox' = Append(inbox, body)
  /\ UNCHANGED <<disk, served, seconds>>
  /\ UNCHANGED vars

\* the app.post("/submit") handler runs for the i-th waiting request:
\* read, push, write and send, without yielding
PostSubmit(i) ==
  /\ disk' = writeFileSync(JSONstringifyIndented(
               Append(ReadSubmissions(disk), newSubmission(inbox[i]))))
  /\ inbox' = RemoveAt(inbox, i)
  /\ served' = served + 1
  /\ UNCHANGED seconds
  /\ UNCHANGED vars

\* a second passes on the server
ServerTick ==
  /\ seconds' = seconds + 1
  /\ UNCHANGED <<disk, inbox, served>>
  /\ UNCHANGED vars

\* ------------------------------------------------------ specifications
\* The component with image files and the asynchronous encode; every
\* localStorage write succeeds.
Next ==
  \/ \E e \in FormEvents : ChangeText(e[1], e[2])
  \/ \E c \in BOOLEAN : ChangeAgree(c)
  \/ \E f \in Files \cup {NULL} : Cardinality(objectUrls) < MaxUrls /\ HandleFile(f)
  \/ Reset
  \/ SubmitInvalid
  \/ Len(submissions) < MaxEncoded /\ Len(readers) < MaxPending /\ SubmitRead
  \/ Len(submissions) < MaxEncoded /\ SubmitSave(TRUE)
  \/ \E i \in 1..MaxPending : i <= Len(readers) /\ ReaderOnload(i, TRUE)
  \/ \E i \in 1..MaxPending : i <= Len(readers) /\ ReaderError(i)

Spec == Init /\ [][Next]_<<vars, serverVars>>

\* The submission log and its localStorage snapshot over page loads; no
\* image is picked and every localStorage write succeeds.
NextLog ==
  \/ \E e \in LogEvents : ChangeText(e[1], e[2])
  \/ ChangeAgree(TRUE)
  \/ SubmitInvalid
  \/ Len(submissions) < MaxLog /\ SubmitSave(TRUE)
  \/ \E ts \in Timestamps : HandleDelete(ts, TRUE)
  \/ now < MaxTime /\ Tick
  \/ Reload

SpecLog == Init /\ [][NextLog]_<<vars, serverVars>>

\* The same, with localStorage writes that may throw (quota exceeded).
NextQuota ==
  \/ \E e \in LogEvents : ChangeText(e[1], e[2])
  \/ ChangeAgree(TRUE)
  \/ SubmitInvalid
  \/ \E ok \in BOOLEAN : Len(submissions) < MaxLog /\ SubmitSave(ok)
  \/ \E ts \in Timestamps : \E ok \in BOOLEAN : HandleDelete(ts, ok)
  \/ now < MaxTime /\ Tick
  \/ Reload

SpecQuota == Init /\ [][NextQuota]_<<vars, serverVars>>

\* The field editor and the validator over a wide range of field values.
NextEditor ==
  \/ \E e \in EditorEvents : ChangeText(e[1], e[2])
  \/ \E c \in BOOLEAN : ChangeAgree(c)
  \/ \E h \in HobbyValues : \E c \in BOOLEAN :
       (c => Len(form.hobbies) < MaxHobbies) /\ ChangeHobby(h, c)
  \/ Reset
  \/ SubmitInvalid

SpecEditor == Init /\ [][NextEditor]_<<vars, serverVars>>

\* The email rule of the validator over every short email string, each
\* typed into the empty email input.
NextEmail ==
  \/ \E e \in EmailStrings : form.email = <<>> /\ ChangeText("email", e)
  \/ SubmitInvalid

SpecEmail == Init /\ [][NextEmail]_<<vars, serverVars>>

\* The validator as a function of the form: the form starts as any of
\* ValidatorForms and is submitted.
InitValidate ==
  /\ form \in ValidatorForms
  /\ preview = NULL
  /\ errors = NoErrors
  /\ storage = <<>>
  /\ submissions = LoadSubmissions(storage)
  /\ readers = <<>>
  /\ objectUrls = {}
  /\ effectUrl = NULL
  /\ now = 0
  /\ last = Event("handleChange", "text", FALSE)
  /\ InitServer

NextValidate ==
  \/ SubmitInvalid
  \/ SubmitSave(TRUE)

SpecValidate == InitValidate /\ [][NextValidate]_<<vars, serverVars>>

\* Submits with at most one encode pending, next to deletes and the clock;
\* every localStorage write succeeds.
NextRace ==
  \/ \E e \in FormEvents : ChangeText(e[1], e[2])
  \/ ChangeAgree(TRUE)
  \/ HandleFile(File1)
  \/ Len(submissions) < MaxLog /\ readers = <<>> /\ SubmitRead
  \/ Len(submissions) < MaxLog /\ SubmitSave(TRUE)
  \/ readers # <<>> /\ ReaderOnload(1, TRUE)
  \/ \E ts \in Timestamps : HandleDelete(ts, TRUE)
  \/ now < MaxTime /\ Tick

SpecRace == Init /\ [][NextRace]_<<vars, serverVars>>

\* the page is freshly mounted and the server has started on a missing,
\* empty or blank submissions.json
InitFiles ==
  /\ form = DefaultForm
  /\ preview = NULL
  /\ errors = NoErrors
  /\ storage = <<>>
  /\ submissions = LoadSubmissions(storage)
  /\ readers = <<>>
  /\ objectUrls = {}
  /\ effectUrl = NULL
  /\ now = 0
  /\ last = Event("mount", "", FALSE)
  /\ disk \in StartFiles
  /\ inbox = <<>>
  /\ served = 0
  /\ seconds = 0

\* The express server: requests arrive, wait for their handler and are
\* handled in any order.
NextServer ==
  \/ \E b \in Bodies : served + Len(inbox) < MaxRequests /\ Request(b)
  \/ \E i \in 1..MaxRequests : i <= Len(inbox) /\ PostSubmit(i)
  \/ seconds < MaxSeconds /\ ServerTick

SpecServer == InitFiles /\ [][NextServer]_<<vars, serverVars>>

\* ================================================================ claims
\* the fields a record shares with the form it was built from
SameFields(rec, f) ==
  /\ rec.name = f.name
  /\ rec.email = f.email
  /\ rec.age = f.age
  /\ rec.gender = f.gender
  /\ rec.bio = f.bio
  /\ rec.hobbies = f.hobbies

\* C1: a submit on a form with at least one validation error publishes
\* exactly the validator's mapping and does nothing else: the form, the
\* in-memory log and the localStorage entry stay as they were.
C1_InvalidSubmitHalts ==
  [][(last'.handler = "handleSubmit" /\ HasErrors(validate(form))) =>
       /\ errors' = validate(form)
       /\ form' = form
       /\ submissions' = submissions
       /\ storage' = storage]_vars

\* an invalid submit with email "bad" has run on a non-empty log
C1_Witness ==
  /\ last = Event("handleSubmit", "invalid", FALSE)
  /\ form.email = S_bad
  /\ DOMAIN errors = {"email"}
  /\ errors["email"] = "Enter a valid email."
  /\ Len(submissions) > 0

\* C2: a submit on a valid form without a profile puts one new record at
\* index 0 of the log, holding the form's name, email, age, gender, bio and
\* hobbies and a null profileUrl; the earlier records follow in their order.
C2_SubmitPrependsRecord ==
  [][(/\ last'.handler = "handleSubmit"
      /\ ~HasErrors(validate(form))
      /\ Falsy(form.profile)) =>
       /\ Len(submissions') = Len(submissions) + 1
       /\ SameFields(submissions'[1], form)
       /\ submissions'[1].profileUrl = NULL
       /\ Tail(submissions') = submissions]_vars

\* a submit without image has just put a record in front of an older one
C2_Witness ==
  /\ last = Event("handleSubmit", "save", FALSE)
  /\ Len(submissions) = 2
  /\ submissions[1].name = S_Ana
  /\ submissions[1].profileUrl = NULL
  /\ submissions[1].timestamp # submissions[2].timestamp

\* C3: when a validated submit has completed (at once, or when its encode
\* finished), and when Reset was pressed, the form is the default form, the
\* errors are empty and no object URL is live.
C3_FormResetAfterSubmitOrReset ==
  (\/ last.handler = "reset"
   \/ last = Event("handleSubmit", "save", FALSE)
   \/ (last.handler = "reader.onload" /\ ~last.threw)) =>
    /\ form = DefaultForm
    /\ errors = NoErrors
    /\ preview = NULL
    /\ objectUrls = {}

\* an encode has completed after the form was edited while it was pending
C3_Witness ==
  /\ last = Event("reader.onload", "edited", FALSE)
  /\ Len(submissions) = 1
  /\ submissions[1].profileUrl = readAsDataURL(File1)
  /\ form = DefaultForm

\* C4: no two records of the log have the same timestamp.
C4_TimestampsUnique ==
  \A i \in 1..Len(submissions) : \A j \in 1..Len(submissions) :
    i # j => submissions[i].timestamp # submissions[j].timestamp

\* C5: a delete of a timestamp that is in the log, with its write going
\* through, removes exactly one record, keeps the others in their order and
\* leaves localStorage holding the new in-memory sequence.
C5_DeleteRemovesExactlyOne ==
  [][\A ts \in Timestamps :
       (HandleDelete(ts, TRUE) /\ HasTimestamp(submissions, ts)) =>
         /\ \E k \in 1..Len(submissions) :
              /\ submissions[k].timestamp = ts
              /\ submissions' = RemoveAt(submissions, k)
         /\ LoadSubmissions(storage') = submissions']_vars

\* C6: a delete of a timestamp that is not in the log, with its write going
\* through, leaves the in-memory sequence and the contents of the
\* localStorage snapshot as they were.
C6_DeleteAbsentIsNoOp ==
  [][\A ts \in Timestamps :
       (HandleDelete(ts, TRUE) /\ ~HasTimestamp(submissions, ts)) =>
         /\ submissions' = submissions
         /\ LoadSubmissions(storage') = LoadSubmissions(storage)]_vars

\* C7: whenever a create, a delete or a page load has gone through, what a
\* load reads back from localStorage is the in-memory log: the same records
\* in the same order with the same field values; an absent key reads as the
\* empty sequence.
C7_RoundTrip ==
  [][((submissions' # submissions \/ storage' # storage) /\ ~last'.threw) =>
       /\ LoadSubmissions(storage') = submissions'
       /\ storage' = <<>> => submissions' = <<>>]_vars

\* a page load has read back two records with different timestamps
C7_Witness ==
  /\ last = Event("mount", "reload", FALSE)
  /\ Len(submissions) = 2
  /\ submissions[1].timestamp # submissions[2].timestamp
  /\ submissions[1].name = S_Ana

\* C8: hobbies holds no value twice, whatever check and uncheck events the
\* handler has received.
C8_HobbiesHaveNoDuplicates ==
  \A i \in 1..Len(form.hobbies) : \A j \in 1..Len(form.hobbies) :
    i # j => form.hobbies[i] # form.hobbies[j]

\* C9: a pending encode holds the form of the moment of its submit, and the
\* record made when it completes has that form's field values and the
\* encoding of that form's file, whatever was edited in between.
C9_PendingSubmitKeepsSnapshot ==
  [][/\ last' = Event("handleSubmit", "read", FALSE) =>
          /\ Len(readers') = Len(readers) + 1
          /\ readers'[Len(readers')].form = form
          /\ SubSeq(readers', 1, Len(readers)) = readers
     /\ last'.handler = "reader.onload" =>
          \E i \in 1..Len(readers) :
            /\ readers' = RemoveAt(readers, i)
            /\ SameFields(submissions'[1], readers[i].form)
            /\ submissions'[1].profileUrl = readAsDataURL(readers[i].form.profile)]_vars

\* an encode completed after edits and its record has the submitted values
C9_Witness ==
  /\ last = Event("reader.onload", "edited", FALSE)
  /\ Len(submissions) > 0
  /\ submissions[1].name = S_Ana
  /\ submissions[1].profileUrl = readAsDataURL(File2)

\* C10: at most one object URL is live; it is the previewed URL and was
\* created for the current profile; with a null profile none is live.
C10_OnePreviewHandle ==
  /\ Cardinality(objectUrls) <= 1
  /\ Falsy(form.profile) => objectUrls = {} /\ preview = NULL
  /\ ~Falsy(form.profile) => objectUrls = {[url |-> preview, blob |-> form.profile]}

\* a second file was picked over a first: the first URL is gone
C10_Witness ==
  /\ last.handler = "handleFile"
  /\ form.profile = File2
  /\ preview = <<"blob", 2>>
  /\ objectUrls = {[url |-> <<"blob", 2>>, blob |-> File2]}

\* C11: when localStorage.setItem throws in the save of a submit, the
\* exception leaves the handler and the form, its preview and the stored
\* snapshot are what they were before the submit: the form is not reset.
C11_FailedWriteKeepsForm ==
  [][(last'.handler \in {"handleSubmit", "reader.onload"} /\ last'.threw) =>
       /\ form' = form
       /\ preview' = preview
       /\ storage' = storage]_vars

\* a submit of a valid, filled form has thrown in setItem
C11_Witness ==
  /\ last = Event("handleSubmit", "save", TRUE)
  /\ form.name = S_Ana
  /\ form.email = S_good
  /\ form.agree
  /\ LoadSubmissions(storage) # submissions

\* shapes of an email string
HasDotAfterAt(s) ==
  \E i \in 1..Len(s) : \E j \in 1..Len(s) : i < j /\ s[i] = "@" /\ s[j] = "."

NoWhitespace(s) == \A k \in 1..Len(s) : ~IsSpace(s[k])

\* s is x@y.z with x, y, z non-empty and no whitespace in s
ShapeXatYdotZ(s) ==
  /\ NoWhitespace(s)
  /\ \E i \in 1..Len(s) : \E j \in 1..Len(s) :
       1 < i /\ i + 1 < j /\ j < Len(s) /\ s[i] = "@" /\ s[j] = "."

\* the same with a single "@" in s
ShapeOneAt(s) ==
  /\ ShapeXatYdotZ(s)
  /\ Cardinality({k \in 1..Len(s) : s[k] = "@"}) = 1

\* C12, as stated: after a submit, an email without "@" or without a "."
\* after an "@" has an email error, and every whitespace-free email of shape
\* x@y.z with non-empty x, y, z has none.
C12_EmailRule ==
  last.handler = "handleSubmit" =>
    /\ ~HasDotAfterAt(form.email) => "email" \in DOMAIN errors
    /\ ShapeXatYdotZ(form.email) => "email" \notin DOMAIN errors

\* C12, amended: after a submit, an email without "@" or without a "."
\* after an "@" has an email error, and every whitespace-free email of shape
\* x@y.z with non-empty x, y, z and exactly one "@" has none.
C12_EmailRuleOneAt ==
  last.handler = "handleSubmit" =>
    /\ ~HasDotAfterAt(form.email) => "email" \in DOMAIN errors
    /\ ShapeOneAt(form.email) => "email" \notin DOMAIN errors

\* a submit has accepted a@a.a and kept the errors of the other fields
C12_Witness ==
  /\ last.handler = "handleSubmit"
  /\ form.email = <<"a", "@", "a", ".", "a">>
  /\ "email" \notin DOMAIN errors
  /\ "name" \in DOMAIN errors

\* C13: a submit of a form whose gender is none of male, female, other
\* (empty or any other string) reports a gender error and creates no
\* record, so every record of the log has one of the three genders.
C13_GenderRule ==
  [][/\ (last'.handler = "handleSubmit" /\ form.gender \notin GenderValues) =>
          /\ "gender" \in DOMAIN errors'
          /\ submissions' = submissions
     /\ \A i \in 1..Len(submissions') : submissions'[i].gender \in GenderValues]_vars

\* C14: a submit of a form with agree = false reports the agree error and
\* creates no record, whatever the other fields hold and whichever of
\* their rules fail.
C14_AgreeAlwaysReported ==
  [][(last'.handler = "handleSubmit" /\ ~form.agree) =>
       /\ "agree" \in DOMAIN errors'
       /\ errors'["agree"] = "You must agree to the terms."
       /\ submissions' = submissions]_vars

\* a submit has reported the agree error next to an error of each other rule
C14_Witness ==
  /\ last = Event("handleSubmit", "invalid", FALSE)
  /\ ~form.agree
  /\ form.age = S_neg
  /\ DOMAIN errors = {"name", "email", "age", "gender", "agree"}

\* the records of a are all in b
AllIn(a, b) == \A i \in 1..Len(a) : \E j \in 1..Len(b) : b[j] = a[i]

\* C15: when a validated submit completes, at once or when its encode
\* finishes, its record goes in front of the log of that moment: the new
\* log is the new record followed by the previous log, in memory and in
\* localStorage, so no record made while the encode was pending is lost.
C15_CompletionKeepsLog ==
  [][(\/ last' = Event("handleSubmit", "save", FALSE)
      \/ (last'.handler = "reader.onload" /\ ~last'.threw)) =>
       /\ Tail(submissions') = submissions
       /\ AllIn(submissions, LoadSubmissions(storage'))]_vars


\* the millisecond count an ISO timestamp stands for
TimeOf(ts) == ts[2]

\* from index 0 on, no record is older than the record after it
NewestFirst(subs) ==
  LET held == subs
      times == [i \in 1..Len(held) |-> TimeOf(held[i].timestamp)]
  IN \A i \in 1..Len(times) : \A j \in 1..Len(times) :
       i < j => times[i] >= times[j]

\* a is b with some of its records taken out
RECURSIVE IsSubSeq(_, _)
IsSubSeq(a, b) ==
  IF a = <<>> THEN TRUE
  ELSE IF b = <<>> THEN FALSE
  ELSE IF Head(a) = Head(b) THEN IsSubSeq(Tail(a), Tail(b))
  ELSE IsSubSeq(a, Tail(b))

\* C16: after every submit and delete the log is newest first, in memory
\* and in localStorage: the record a submit creates is at index 0 and has
\* the current time, a delete keeps the order of the records it leaves, and
\* no record has an earlier timestamp than the record after it.
C16_NewestFirst ==
  [][/\ NewestFirst(submissions')
     /\ NewestFirst(LoadSubmissions(storage'))
     /\ (last'.handler \in {"handleSubmit", "reader.onload"} /\ submissions' # submissions) =>
          /\ submissions'[1].timestamp = toISOString(now)
          /\ NewestFirst(Tail(submissions'))
     /\ last'.handler = "handleDelete" => IsSubSeq(submissions', submissions)]_vars

\* an encode has completed a millisecond after the record behind it was made
C16_Witness ==
  /\ last.handler = "reader.onload"
  /\ Len(submissions) = 2
  /\ submissions[1].timestamp = toISOString(1)
  /\ submissions[2].timestamp = toISOString(0)
  /\ LoadSubmissions(storage) = submissions

\* C17: when the read of the file of a pending submit fails, the submit
\* does not complete: the log and the localStorage snapshot stay as they
\* were, no record is made (none with a null image either), the form and
\* its errors are not reset, and the read is no longer pending.
C17_FailedReadCreatesNothing ==
  [][last'.handler = "reader.onerror" =>
       /\ submissions' = submissions
       /\ storage' = storage
       /\ form' = form
       /\ preview' = preview
       /\ errors' = errors
       /\ Len(readers') = Len(readers) - 1]_vars

\* the read of a submitted image has failed: the filled form is still
\* there, the log is empty and nothing is pending
C17_Witness ==
  /\ last = Event("reader.onerror", "", FALSE)
  /\ form.name = S_Ana
  /\ form.profile = File1
  /\ submissions = <<>>
  /\ storage = <<>>
  /\ readers = <<>>

\* C18: a record taken out by a delete does not come back: after any step,
\* every timestamp in the log and in the localStorage snapshot was in the
\* log before the step or is the timestamp of the record the step creates.
C18_DeletedStaysDeleted ==
  [][/\ \A k \in 1..Len(submissions') :
          \/ HasTimestamp(submissions, submissions'[k].timestamp)
          \/ (last'.handler \in {"handleSubmit", "reader.onload"} /\ k = 1)
     /\ AllIn(LoadSubmissions(storage'), submissions')]_vars

\* C19: after the load at startup and after every handler, a create or
\* delete whose localStorage write throws included, the in-memory log is
\* the sequence localStorage holds (an absent key being the empty one).
C19_MemoryEqualsStorage == LoadSubmissions(storage) = submissions

\* a record as JSON keeps it: without the members that are undefined
Defined(r) == [k \in {x \in DOMAIN r : r[x] # UNDEFINED} |-> r[k]]

\* C20: each POST /submit handled puts exactly one record, made of the
\* request's name, email and message and the time of handling, at the end
\* of the array in submissions.json and keeps the earlier records as they
\* were and in their order; a missing, empty or blank file counts as the
\* empty array; whatever the order in which waiting requests are handled,
\* the file holds as many records as responses were sent.
C20_PostAppendsOneRecord ==
  [][/\ served' = served + 1 =>
          \E i \in 1..Len(inbox) :
            /\ inbox' = RemoveAt(inbox, i)
            /\ ReadSubmissions(disk') =
                 Append(ReadSubmissions(disk),
                        Defined([name |-> inbox[i].name,
                                 email |-> inbox[i].email,
                                 message |-> inbox[i].message,
                                 submittedAt |-> toLocaleString(seconds)]))
     /\ served' = served => ReadSubmissions(disk') = ReadSubmissions(disk)
     /\ Len(ReadSubmissions(disk')) = served']_serverVars

\* two requests are handled, the later one a second later and without a
\* name, and a third is waiting
C20_Witness ==
  /\ served = 2
  /\ Len(inbox) = 1
  /\ Len(ReadSubmissions(disk)) = 2
  /\ ReadSubmissions(disk)[1] =
       [name |-> S_Ana, email |-> S_good, message |-> S_hi,
        submittedAt |-> toLocaleString(0)]
  /\ ReadSubmissions(disk)[2] =
       [email |-> S_good, message |-> <<>>, submittedAt |-> toLocaleString(1)]

====
